---- MODULE Spec2Model ----
(***************************************************************************)
(* Model of the fountain demo: the particle simulator of src/particles.js, *)
(* the animation driver of src/main.js and the matrix helpers of           *)
(* src/transforms.js.                                                      *)
(*                                                                         *)
(* Numbers.  JavaScript numbers (doubles) are modelled by integers, on     *)
(* which the arithmetic of the code is exact.  A store into a Float32Array *)
(* is a conversion to single precision; it is modelled by Fround, rounding *)
(* to nearest (ties to even) on a MantBits-bit significand.  Times are     *)
(* counted in model ticks and lengths in model units, chosen so that the   *)
(* gravitational constant G is the integer 2.  Matrix and vertex elements  *)
(* are integers.  Infinity is not modelled; NaN occurs only as the result  *)
(* of arithmetic on undefined, the value of a read past the end of an      *)
(* array.                                                                  *)
(***************************************************************************)
EXTENDS Integers, Sequences, FiniteSets, TLC

\* ------------------------------------------------------------------ bounds
\* Significand width of the modelled single-precision format (24 in IEEE-754).
MantBits == 2
\* Largest time handed to update.
MaxTime == 10
\* Largest number of loop callbacks a click may leave scheduled.
MaxPending == 2
\* Largest number of matrices passed to multiplyMatrices.
MaxArgs == 3
\* Largest length of a vertex array passed to the library.
MaxLen == 9
\* Largest index the loop of applyToVertices is followed to.
MaxIndex == 16

\* --------------------------------------------------------------- constants
\* src/particles.js:3  (1 << 10 in the source; particles are independent)
N == 2
NNN == 3 * N
\* src/particles.js:6  (9.8e-6 per ms^2, in model units)
G == 2
\* src/particles.js:13
groundLevel == 0
\* src/particles.js:22  (1.5e3 ms, in model ticks)
EmissionWindow == 2
\* src/particles.js:54  damping 0.4 = DampNum / DampDen
DampNum == 2
DampDen == 5

VARIABLES
    positions,        \* Float32Array(NNN)   src/particles.js:8
    startPositions,   \* Float32Array(NNN)   src/particles.js:9
    startVelocities,  \* Float32Array(NNN)   src/particles.js:10
    startTimes,       \* Float32Array(N)     src/particles.js:11
    time,             \* argument of the latest update call
    bounced,          \* particles whose bounce branch ran in the latest update
    bouncedBefore,    \* particles whose bounce branch ran in an earlier update
    lastOp,           \* the latest operation executed
    running,          \* var running            src/main.js:2
    rafQueue,         \* loop callbacks registered for the next animation frame
    frameCallbacks,   \* loop callbacks of the current frame still to run
    frameTime,        \* timestamp of the current animation frame
    loopsInFrame,     \* loop callbacks run so far in the current frame
    mA, mB,           \* two 4x4 matrices, column-major (the callers' arguments)
    product,          \* value returned by multiplyMatrices(mA, mB)
    heap,             \* the callers' vertex arrays, by name
    called,           \* the library calls made so far
    lib               \* the latest single call of a library function

particleVars == <<positions, startPositions, startVelocities, startTimes>>
driverVars == <<running, rafQueue, frameCallbacks, frameTime, loopsInFrame>>
vars == <<positions, startPositions, startVelocities, startTimes,
          time, bounced, bouncedBefore, lastOp,
          running, rafQueue, frameCallbacks, frameTime, loopsInFrame,
          mA, mB, product, heap, called, lib>>
matrixVars == <<mA, mB, product, heap, called, lib>>

\* ------------------------------------------------------- single precision
Abs(x) == IF x < 0 THEN -x ELSE x

RECURSIVE Pow2(_)
Pow2(k) == IF k = 0 THEN 1 ELSE 2 * Pow2(k - 1)

\* Spacing of the representable values around n/d (n >= 0, d > 0): the least
\* power of two q with n/d < q * 2^MantBits.
RECURSIVE Ulp(_, _, _)
Ulp(n, d, q) == IF n >= q * d * Pow2(MantBits) THEN Ulp(n, d, 2 * q) ELSE q

\* n/m rounded to the nearest integer, ties to the even one (n >= 0, m > 0).
RoundHalfEven(n, m) ==
    LET f == n \div m
        r == n % m
    IN  IF 2 * r < m THEN f
        ELSE IF 2 * r > m THEN f + 1
        ELSE IF f % 2 = 0 THEN f ELSE f + 1

\* The single-precision value nearest to the rational n/d (d > 0).
FroundQ(n, d) ==
    LET a == Abs(n)
        q == Ulp(a, d, 1)
        m == q * RoundHalfEven(a, d * q)
    IN  IF n < 0 THEN -m ELSE m

\* The value a Float32Array element holds after the number x is stored in it.
Fround(x) == FroundQ(x, 1)

Representable(x) == Fround(x) = x

\* ------------------------------------------------------------ construction
Particles == 0 .. (N - 1)
Offsets == 0 .. (NNN - 1)
Times == 0 .. MaxTime

\* 3e-3 * (Math.random() - 0.5)
VxInit == {-1, 1}
\* 15e-3 + Math.random() * 15e-3
VyInit == {2, 3}

InitParticles ==
    /\ positions = [o \in Offsets |-> 0]
    /\ startPositions = [o \in Offsets |-> 0]
    /\ startVelocities \in [Offsets -> VxInit \cup VyInit \cup {0}]
    /\ \A i \in Particles :
          /\ startVelocities[3 * i] \in VxInit
          /\ startVelocities[3 * i + 1] \in VyInit
          /\ startVelocities[3 * i + 2] = 0
    /\ startTimes = [i \in Particles |-> FroundQ(i * EmissionWindow, N)]

\* ------------------------------------------------------------------ update
\* Dt without the clamp of line 38.
DtUnclamped(i, t) == t - startTimes[i]

\* dt = time - startTimes[i]; dt = dt > 0 ? dt : 0
Dt(i, t) ==
    LET dt == t - startTimes[i]
    IN  IF dt > 0 THEN dt ELSE 0

\* The values the three position elements hold after lines 39-41.  G is
\* even, so the division G * dt * dt / 2 is exact.
PosX(i, t) ==
    Fround(startPositions[3 * i] + Dt(i, t) * startVelocities[3 * i])

\* PosY without the gravity term.
PosYNoGravity(i, t) ==
    Fround(startPositions[3 * i + 1] + Dt(i, t) * startVelocities[3 * i + 1])

\* PosY with the gravity term not halved.
PosYNoHalf(i, t) ==
    Fround(startPositions[3 * i + 1]
             + Dt(i, t) * startVelocities[3 * i + 1]
             - G * Dt(i, t) * Dt(i, t))

PosY(i, t) ==
    Fround(startPositions[3 * i + 1]
             + Dt(i, t) * startVelocities[3 * i + 1]
             - (G * Dt(i, t) * Dt(i, t)) \div 2)

PosZ(i, t) ==
    Fround(startPositions[3 * i + 2] + Dt(i, t) * startVelocities[3 * i + 2])

\* Bounces with <= for <.
BouncesAtGround(i, t) == PosY(i, t) <= groundLevel

\* if (positions[offset + 1] < groundLevel)
Bounces(i, t) == PosY(i, t) < groundLevel

\* Rebound computed from the velocity of the spawn, not of the impact.
ReboundFromSpawn(i, t) ==
    FroundQ((-startVelocities[3 * i + 1]) * DampNum, DampDen)

\* Rebound without the change of sign.
ReboundNoFlip(i, t) ==
    FroundQ((startVelocities[3 * i + 1] - G * Dt(i, t)) * DampNum, DampDen)

\* 0.4 * -(startVelocities[offset + 1] - G * dt), as stored
Rebound(i, t) ==
    FroundQ((-(startVelocities[3 * i + 1] - G * Dt(i, t))) * DampNum, DampDen)

\* ResetTime that leaves the start time as it was.
ResetTimeStale(i, t) == startTimes[i]

\* startTimes[i] = time, as stored (line 58)
ResetTime(i, t) == Fround(t)

\* VelocityAfter that also reassigns the horizontal components in the bounce
\* branch (the lines 50 and 52 of the source, which are commented out).
VelocityAfterResample(o, i, t) ==
    IF ~Bounces(i, t) THEN startVelocities[o]
    ELSE IF o % 3 = 1 THEN Rebound(i, t) ELSE -startVelocities[o]

\* The element startVelocities[o] of particle i after the loop body: only the
\* vertical component is assigned, and only in the bounce branch (line 54).
VelocityAfter(o, i, t) ==
    IF Bounces(i, t) /\ o % 3 = 1 THEN Rebound(i, t) ELSE startVelocities[o]

\* PositionAfter without the clamp of line 47: the chained assignment reduced
\* to startPositions[offset + 1] = groundLevel.
PositionAfterUnclamped(o, i, t) ==
    CASE o % 3 = 0 -> PosX(i, t)
      [] o % 3 = 1 -> PosY(i, t)
      [] o % 3 = 2 -> PosZ(i, t)

\* The element positions[o] of particle i after the loop body (lines 39-41,
\* and line 47 in the bounce branch).
PositionAfter(o, i, t) ==
    CASE o % 3 = 0 -> PosX(i, t)
      [] o % 3 = 1 -> IF Bounces(i, t) THEN Fround(groundLevel) ELSE PosY(i, t)
      [] o % 3 = 2 -> PosZ(i, t)

\* StartPositionAfter without the lines 44 and 45: a bounce resets the vertical
\* start position only.
StartPositionAfterVertical(o, i, t) ==
    IF Bounces(i, t) /\ o % 3 = 1 THEN Fround(groundLevel) ELSE startPositions[o]

\* The element startPositions[o] of particle i after the loop body: assigned
\* in the bounce branch only (lines 44, 45, 47), x and z read back from
\* positions.
StartPositionAfter(o, i, t) ==
    IF ~Bounces(i, t) THEN startPositions[o]
    ELSE CASE o % 3 = 0 -> PosX(i, t)
           [] o % 3 = 1 -> Fround(groundLevel)
           [] o % 3 = 2 -> PosZ(i, t)

\* The effect of update(time) on the simulator's arrays: the whole loop over
\* the particles (lines 32-60).  Particles do not read each other's elements.
UpdateArrays(t) ==
    /\ positions' = [o \in Offsets |-> PositionAfter(o, o \div 3, t)]
    /\ startPositions' = [o \in Offsets |-> StartPositionAfter(o, o \div 3, t)]
    /\ startVelocities' = [o \in Offsets |-> VelocityAfter(o, o \div 3, t)]
    /\ startTimes' = [i \in Particles |->
          IF Bounces(i, t) THEN ResetTime(i, t) ELSE startTimes[i]]
    /\ time' = t
    /\ bounced' = {i \in Particles : Bounces(i, t)}
    /\ bouncedBefore' = bouncedBefore \cup bounced

\* particles.update(time), called directly with any time.
Update(t) ==
    /\ UpdateArrays(t)
    /\ lastOp' = "update"
    /\ UNCHANGED <<driverVars, matrixVars>>

\* render that stores the projected coordinates back into positions.
RenderInPlace ==
    /\ positions' = [o \in Offsets |-> Fround(12 * positions[o])]
    /\ lastOp' = "render"
    /\ UNCHANGED <<startPositions, startVelocities, startTimes>>
    /\ UNCHANGED <<time, bounced, bouncedBefore, driverVars, matrixVars>>

\* particles.render(): the canvas is cleared and one square per particle is
\* drawn from positions[offset .. offset + 2], which are read only; size, r and
\* the loop counter are locals.  The canvas is not part of the simulator.
Render ==
    /\ lastOp' = "render"
    /\ UNCHANGED particleVars
    /\ UNCHANGED <<time, bounced, bouncedBefore, driverVars, matrixVars>>

\* No request of a frame.
RequestNothing(q) == q

\* ------------------------------------------------------------------ driver
\* var running = true; ...; requestAnimationFrame(loop)
InitDriver ==
    /\ running = TRUE
    /\ rafQueue = 1
    /\ frameCallbacks = 0
    /\ frameTime = 0
    /\ loopsInFrame = 0

\* requestAnimationFrame(loop): one more callback for the next frame.
RequestAnimationFrame(q) == q + 1

\* button.onclick.  Event handlers run between animation frames, never among
\* the callbacks of one frame.
Click ==
    /\ frameCallbacks = 0
    /\ running \/ rafQueue < MaxPending
    /\ running' = ~running
    /\ rafQueue' = IF running' THEN RequestAnimationFrame(rafQueue) ELSE rafQueue
    /\ lastOp' = "click"
    /\ UNCHANGED <<particleVars, time, bounced, bouncedBefore, frameCallbacks,
                   frameTime, loopsInFrame, matrixVars>>

\* The browser starts an animation frame: it takes the callbacks registered so
\* far and will run each of them with the frame's timestamp, which is later
\* than that of the frame before.
AnimationFrame ==
    /\ frameCallbacks = 0
    /\ rafQueue > 0
    /\ \E t \in Times : t > frameTime /\ frameTime' = t
    /\ frameCallbacks' = rafQueue
    /\ rafQueue' = 0
    /\ loopsInFrame' = 0
    /\ lastOp' = "frame"
    /\ UNCHANGED <<particleVars, time, bounced, bouncedBefore, running,
                   matrixVars>>

\* loop(time): update, render (which reads positions only), and one more
\* request while running.
Loop ==
    /\ frameCallbacks > 0
    /\ UpdateArrays(frameTime)
    /\ rafQueue' = IF running THEN RequestAnimationFrame(rafQueue) ELSE rafQueue
    /\ frameCallbacks' = frameCallbacks - 1
    /\ loopsInFrame' = loopsInFrame + 1
    /\ lastOp' = "loop"
    /\ UNCHANGED <<running, frameTime, matrixVars>>

\* ---------------------------------------------------------------- matrices
\* A matrix is the sequence of its 16 elements in column-major order; the
\* element the source writes m[k] is m[k + 1] here.
IDENTITY ==
    << 1, 0, 0, 0,
       0, 1, 0, 0,
       0, 0, 1, 0,
       0, 0, 0, 1 >>

\* What args.pop() returns on an empty array.
Undefined == "undefined"

\* One pass of the while loop of multiplyMatrices: the product of matrix1 and
\* matrix2, currentMatrix[4 * j + i] = sum over k of
\* matrix1[4 * k + i] * matrix2[4 * j + k].
MatrixProductSwapped(matrix1, matrix2) ==
    [e \in 1 .. 16 |->
        LET i == (e - 1) % 4
            j == (e - 1) \div 4
        IN  0 + matrix2[4 * 0 + i + 1] * matrix1[4 * j + 0 + 1]
              + matrix2[4 * 1 + i + 1] * matrix1[4 * j + 1 + 1]
              + matrix2[4 * 2 + i + 1] * matrix1[4 * j + 2 + 1]
              + matrix2[4 * 3 + i + 1] * matrix1[4 * j + 3 + 1]]

MatrixProduct(matrix1, matrix2) ==
    [e \in 1 .. 16 |->
        LET i == (e - 1) % 4
            j == (e - 1) \div 4
        IN  0 + matrix1[4 * 0 + i + 1] * matrix2[4 * j + 0 + 1]
              + matrix1[4 * 1 + i + 1] * matrix2[4 * j + 1 + 1]
              + matrix1[4 * 2 + i + 1] * matrix2[4 * j + 2 + 1]
              + matrix1[4 * 3 + i + 1] * matrix2[4 * j + 3 + 1]]

\* while (args.length) { matrix1 = args.pop(); matrix2 = currentMatrix; ... }
RECURSIVE MultiplyLoop(_, _)
MultiplyLoop(args, currentMatrix) ==
    IF Len(args) = 0 THEN currentMatrix
    ELSE MultiplyLoop(SubSeq(args, 1, Len(args) - 1),
                      MatrixProduct(args[Len(args)], currentMatrix))

\* multiplyMatrices(...args): args is a copy of the arguments.
multiplyMatrices(args) ==
    IF Len(args) = 0 THEN Undefined
    ELSE MultiplyLoop(SubSeq(args, 1, Len(args) - 1), args[Len(args)])

\* The result of arithmetic on undefined.
NaN == "NaN"

\* a[k] of a JavaScript array.
Read(a, k) == IF k < Len(a) THEN a[k + 1] ELSE Undefined

\* a[k] = x on the array named d: an element at the end extends the array.
Store(h, d, k, x) ==
    [h EXCEPT ![d] = IF k < Len(@) THEN [@ EXCEPT ![k + 1] = x] ELSE Append(@, x)]

\* The loop body without the temporaries sx .. sw: each row reads the source
\* array as the rows before it have left it.
ApplyVertexNoTemps(matrix, h, s, d, i) ==
    LET h1 == Store(h, d, i,
                 matrix[1] * Read(h[s], i) + matrix[5] * Read(h[s], i + 1)
                   + matrix[9] * Read(h[s], i + 2) + matrix[13] * Read(h[s], i + 3))
        h2 == Store(h1, d, i + 1,
                 matrix[2] * Read(h1[s], i) + matrix[6] * Read(h1[s], i + 1)
                   + matrix[10] * Read(h1[s], i + 2) + matrix[14] * Read(h1[s], i + 3))
        h3 == Store(h2, d, i + 2,
                 matrix[3] * Read(h2[s], i) + matrix[7] * Read(h2[s], i + 1)
                   + matrix[11] * Read(h2[s], i + 2) + matrix[15] * Read(h2[s], i + 3))
    IN  Store(h3, d, i + 3,
                 matrix[4] * Read(h3[s], i) + matrix[8] * Read(h3[s], i + 1)
                   + matrix[12] * Read(h3[s], i + 2) + matrix[16] * Read(h3[s], i + 3))

\* The body of the loop of applyToVertices for the vertex at index i: the four
\* source elements are read into sx .. sw, then the four destination elements
\* are written in turn.  s and d name the source and the destination array;
\* they are the same name when the caller passes one array twice.
\* A read past the end of the source array gives undefined, a product with
\* undefined is NaN and so is every sum with a NaN term: the four sums are
\* numbers when the four elements i .. i + 3 exist, and NaN otherwise.
ApplyVertex(matrix, h, s, d, i) ==
    LET sx == Read(h[s], i)
        sy == Read(h[s], i + 1)
        sz == Read(h[s], i + 2)
        sw == Read(h[s], i + 3)
        defined == i + 3 < Len(h[s])
        h1 == Store(h, d, i,
                 IF defined
                 THEN matrix[1] * sx + matrix[5] * sy + matrix[9] * sz + matrix[13] * sw
                 ELSE NaN)
        h2 == Store(h1, d, i + 1,
                 IF defined
                 THEN matrix[2] * sx + matrix[6] * sy + matrix[10] * sz + matrix[14] * sw
                 ELSE NaN)
        h3 == Store(h2, d, i + 2,
                 IF defined
                 THEN matrix[3] * sx + matrix[7] * sy + matrix[11] * sz + matrix[15] * sw
                 ELSE NaN)
    IN  Store(h3, d, i + 3,
                 IF defined
                 THEN matrix[4] * sx + matrix[8] * sy + matrix[12] * sz + matrix[16] * sw
                 ELSE NaN)

\* for (var i = 0, il = sourceVertices.length; i !== il; i += 4)
RECURSIVE ApplyLoop(_, _, _, _, _, _)
ApplyLoop(matrix, h, s, d, i, il) ==
    IF i = il THEN h
    ELSE ApplyLoop(matrix, ApplyVertex(matrix, h, s, d, i), s, d, i + 4, il)

\* applyToVertices(matrix, sourceVertices, destVertices): the arrays after it.
applyToVertices(matrix, h, s, d) == ApplyLoop(matrix, h, s, d, 0, Len(h[s]))

\* Callers' inputs.  The 16 matrix units and the 4 unit vertices span all
\* matrices and vertices, and the library's functions are linear in each
\* argument; Dense and DenseBatch are a matrix and a batch of two vertices
\* without zero or repeated elements.
MatrixUnit(n) == [e \in 1 .. 16 |-> IF e = n THEN 1 ELSE 0]

Dense ==
    << 2, -3, 5, 7,
       -1, 4, 3, -2,
       6, 1, -4, 2,
       3, -5, 1, 4 >>

Matrices == {MatrixUnit(n) : n \in 1 .. 16} \cup {IDENTITY, Dense}

VertexUnit(n) == [e \in 1 .. 4 |-> IF e = n THEN 1 ELSE 0]

DenseBatch == << 1, -2, 3, 1, 4, 5, -6, 2 >>

Batches == {VertexUnit(n) : n \in 1 .. 4} \cup {DenseBatch}

Buffers == {"src", "viaProduct", "viaB", "viaBA", "inPlace", "separate"}

\* The record of a single library call: the function, the references it was
\* given (indices into mem), the arrays it can reach (mem; the callers'
\* matrices mA and mB are mem[1] and mem[2]), how the call has ended so far,
\* the reference it returned (0: none) and the loop counters of applyToVertices.
NoCall ==
    [fn |-> "none", args |-> << >>, mem |-> << >>, outcome |-> "none",
     ret |-> 0, i |-> 0, il |-> 0, iterations |-> 0]

\* No library call is in progress or was made (the particle demo uses none).
MatrixIdle ==
    /\ mA = IDENTITY
    /\ mB = IDENTITY
    /\ product = Undefined
    /\ heap = [b \in Buffers |-> << >>]
    /\ called = {}
    /\ lib = NoCall

InitMatrix ==
    /\ mA \in Matrices
    /\ mB \in Matrices
    /\ product = Undefined
    /\ \E v \in Batches :
          heap = [b \in Buffers |-> IF b \in {"src", "inPlace"} THEN v ELSE << >>]
    /\ called = {}
    /\ lib = NoCall

\* product = multiplyMatrices(mA, mB)
Multiply ==
    /\ "multiply" \notin called
    /\ product' = multiplyMatrices(<<mA, mB>>)
    /\ called' = called \cup {"multiply"}
    /\ UNCHANGED <<mA, mB, heap, lib>>
    /\ UNCHANGED <<particleVars, time, bounced, bouncedBefore, lastOp, driverVars>>

\* applyToVertices(matrix, s, d), made once per destination array.
Apply(matrix, s, d) ==
    /\ d \notin called
    /\ heap' = applyToVertices(matrix, heap, s, d)
    /\ called' = called \cup {d}
    /\ UNCHANGED <<mA, mB, product, lib>>
    /\ UNCHANGED <<particleVars, time, bounced, bouncedBefore, lastOp, driverVars>>

\* applyToVertices(product, src, viaProduct)
ApplyProduct == "multiply" \in called /\ Apply(product, "src", "viaProduct")

\* applyToVertices(mB, src, viaB); applyToVertices(mA, viaB, viaBA)
ApplyB == Apply(mB, "src", "viaB")

ApplyAToB == "viaB" \in called /\ Apply(mA, "viaB", "viaBA")

\* applyToVertices(mA, inPlace, inPlace): source and destination are one array
ApplyInPlace == Apply(mA, "inPlace", "inPlace")

\* applyToVertices(mA, src, separate)
ApplySeparate == Apply(mA, "src", "separate")

\* ------------------------------------------------------------ single calls
\* Calls of the library's functions one at a time, on references: an array is
\* named by its index in mem, so that a write into an argument shows.

\* One pass of the while loop that writes the product into the array of
\* matrix2 instead of a new one.
MultiplyPassInPlace(mem, matrix1, current) ==
    [mem |-> [mem EXCEPT ![current] = MatrixProduct(mem[matrix1], mem[current])],
     current |-> current]

\* One pass of the while loop: matrix1 = args.pop(), matrix2 = currentMatrix,
\* currentMatrix = new Array(16), which the product is written to.
MultiplyPass(mem, matrix1, current) ==
    [mem |-> Append(mem, MatrixProduct(mem[matrix1], mem[current])),
     current |-> Len(mem) + 1]

\* while (args.length) { ... }, then return currentMatrix.  (The pass is bound
\* by a quantifier so that it is computed once.)
RECURSIVE MultiplyRefs(_, _, _)
MultiplyRefs(mem, args, current) ==
    IF Len(args) = 0 THEN [mem |-> mem, current |-> current]
    ELSE CHOOSE r \in
            {MultiplyRefs(pass.mem, SubSeq(args, 1, Len(args) - 1), pass.current) :
                pass \in {MultiplyPass(mem, args[Len(args)], current)}} : TRUE

\* The argument lists of multiplyMatrices: up to MaxArgs references to the
\* callers' two matrices, in any order and with repetitions.
ArgLists == UNION {[1 .. k -> {1, 2}] : k \in 0 .. MaxArgs}

\* multiplyMatrices(...args).  Without arguments args.pop() gives undefined,
\* the loop is skipped and undefined is returned; nothing is thrown.
CallMultiply(args) ==
    /\ \/ /\ Len(args) = 0
          /\ lib' = [NoCall EXCEPT !.fn = "multiplyMatrices", !.mem = <<mA, mB>>,
                                   !.outcome = "returned undefined"]
          /\ UNCHANGED <<mA, mB>>
       \/ /\ Len(args) > 0
          /\ \E r \in {MultiplyRefs(<<mA, mB>>, SubSeq(args, 1, Len(args) - 1),
                                    args[Len(args)])} :
                /\ lib' = [NoCall EXCEPT !.fn = "multiplyMatrices", !.args = args,
                                         !.mem = r.mem, !.outcome = "returned",
                                         !.ret = r.current]
                /\ mA' = r.mem[1]
                /\ mB' = r.mem[2]
    /\ UNCHANGED <<product, heap, called>>
    /\ UNCHANGED <<particleVars, time, bounced, bouncedBefore, lastOp, driverVars>>

\* transpose with the last element taken from m[11].
transposeTypo(m) ==
    << m[1], m[5], m[9],  m[13],
       m[2], m[6], m[10], m[14],
       m[3], m[7], m[11], m[15],
       m[4], m[8], m[12], m[12] >>

\* transpose(m): the array literal of lines 316-321.
transpose(m) ==
    << m[1], m[5], m[9],  m[13],
       m[2], m[6], m[10], m[14],
       m[3], m[7], m[11], m[15],
       m[4], m[8], m[12], m[16] >>

\* The arrays a caller holds: its two matrices and the array the call before
\* returned, if it returned one.
Held ==
    <<mA, mB>> \o (IF lib.ret > 0 THEN <<lib.mem[lib.ret]>> ELSE << >>)

\* transpose(m), m being the array r of those the caller holds.
CallTranspose(r) ==
    /\ r <= Len(Held)
    /\ lib' = [NoCall EXCEPT !.fn = "transpose", !.args = <<r>>,
                             !.mem = Append(Held, transpose(Held[r])),
                             !.outcome = "returned", !.ret = Len(Held) + 1]
    /\ UNCHANGED <<mA, mB, product, heap, called>>
    /\ UNCHANGED <<particleVars, time, bounced, bouncedBefore, lastOp, driverVars>>

\* The vertex arrays handed to the library: any length up to MaxLen, also
\* lengths that are no multiple of 4.  The w of every vertex is 2 and the other
\* coordinates are even, so that the divisions of normalizeVertices are exact.
VertexArray(n) ==
    [k \in 1 .. n |->
        IF k % 4 = 0 THEN 2 ELSE IF k % 3 = 0 THEN -2 * k ELSE 2 * k]

\* applyToVertices(mA, v, d) up to the first test of the loop: the matrix
\* elements are read, i = 0, il = sourceVertices.length.  d is 3 when the
\* destination is the source array and 4 when it is an empty array.
ApplyStart(n, d) ==
    /\ lib' = [NoCall EXCEPT !.fn = "applyToVertices", !.args = <<1, 3, d>>,
                             !.mem = <<mA, mB, VertexArray(n), << >> >>,
                             !.outcome = "running", !.il = n]
    /\ UNCHANGED <<mA, mB, product, heap, called>>
    /\ UNCHANGED <<particleVars, time, bounced, bouncedBefore, lastOp, driverVars>>

\* i !== il holds: the loop body runs for the vertex at i, then i += 4.
ApplyStep ==
    /\ lib.fn = "applyToVertices"
    /\ lib.outcome = "running"
    /\ lib.i # lib.il
    /\ lib.i <= MaxIndex
    /\ lib' = [lib EXCEPT !.mem = ApplyVertex(lib.mem[1], lib.mem,
                                              lib.args[2], lib.args[3], lib.i),
                          !.i = @ + 4,
                          !.iterations = @ + 1]
    /\ UNCHANGED <<mA, mB, product, heap, called>>
    /\ UNCHANGED <<particleVars, time, bounced, bouncedBefore, lastOp, driverVars>>

\* i !== il fails: the loop ends and the function returns (no value).
ApplyReturn ==
    /\ lib.fn = "applyToVertices"
    /\ lib.outcome = "running"
    /\ lib.i = lib.il
    /\ lib' = [lib EXCEPT !.outcome = "returned undefined"]
    /\ UNCHANGED <<mA, mB, product, heap, called>>
    /\ UNCHANGED <<particleVars, time, bounced, bouncedBefore, lastOp, driverVars>>

\* The body of the loop of normalizeVertices for the vertex at i.  A division
\* by undefined (w read past the end of the array) gives NaN.
NormalizeVertex(h, v, i) ==
    LET defined == i + 3 < Len(h[v])
        w == Read(h[v], i + 3)
        h1 == Store(h, v, i, IF defined THEN Read(h[v], i) \div w ELSE NaN)
        h2 == Store(h1, v, i + 1, IF defined THEN Read(h[v], i + 1) \div w ELSE NaN)
        h3 == Store(h2, v, i + 2, IF defined THEN Read(h[v], i + 2) \div w ELSE NaN)
    IN  Store(h3, v, i + 3, 1)

\* for (var i = 0, l = vertices.length; i < l; i += 4)
RECURSIVE NormalizeLoop(_, _, _, _)
NormalizeLoop(h, v, i, l) ==
    IF i < l THEN NormalizeLoop(NormalizeVertex(h, v, i), v, i + 4, l) ELSE h

\* normalizeVertices(vertices): the arrays after it.
normalizeVertices(h, v) == NormalizeLoop(h, v, 0, Len(h[v]))

\* normalizeVertices(v)
CallNormalize(n) ==
    /\ lib' = [NoCall EXCEPT !.fn = "normalizeVertices", !.args = <<3>>,
                             !.mem = normalizeVertices(<<mA, mB, VertexArray(n)>>, 3),
                             !.outcome = "returned undefined", !.il = n]
    /\ UNCHANGED <<mA, mB, product, heap, called>>
    /\ UNCHANGED <<particleVars, time, bounced, bouncedBefore, lastOp, driverVars>>

Init ==
    /\ InitParticles
    /\ InitDriver
    /\ MatrixIdle
    /\ time = 0
    /\ bounced = {}
    /\ bouncedBefore = {}
    /\ lastOp = "init"

Next == \E t \in Times : Update(t)

Spec == Init /\ [][Next]_vars

\* update keeps being called, each time with a later time, up to MaxTime.
UpdateLater(t) ==
    /\ t > time
    /\ Update(t)

NextLive == \E t \in Times : UpdateLater(t)

SpecLive == Init /\ [][NextLive]_vars /\ WF_vars(NextLive)

\* update and render called in any order.
NextRender ==
    \/ \E t \in Times : Update(t)
    \/ Render

SpecRender == Init /\ [][NextRender]_vars

\* Callers of the matrix library; the particle simulator stands as built.
InitLibrary ==
    /\ InitParticles
    /\ \A i \in Particles :
          /\ startVelocities[3 * i] = 1
          /\ startVelocities[3 * i + 1] = 2
    /\ InitDriver
    /\ InitMatrix
    /\ time = 0
    /\ bounced = {}
    /\ bouncedBefore = {}
    /\ lastOp = "init"

NextMatrix ==
    \/ Multiply
    \/ ApplyProduct
    \/ ApplyB
    \/ ApplyAToB
    \/ ApplyInPlace
    \/ ApplySeparate

SpecMatrix == InitLibrary /\ [][NextMatrix]_vars

\* The callers' two matrices: a matrix without zero elements and the identity,
\* a matrix unit off the diagonal or the dense matrix again, in either order.
Operands == {IDENTITY, Dense, MatrixUnit(2), MatrixUnit(5), MatrixUnit(12)}

MatrixPairs ==
    {p \in Operands \X Operands : p[1] = Dense \/ p[2] = Dense}

\* Callers that make single calls of the library's functions.
InitCalls ==
    /\ InitParticles
    /\ \A i \in Particles :
          /\ startVelocities[3 * i] = 1
          /\ startVelocities[3 * i + 1] = 2
    /\ InitDriver
    /\ \E p \in MatrixPairs :
          /\ mA = p[1]
          /\ mB = p[2]
    /\ product = Undefined
    /\ heap = [b \in Buffers |-> << >>]
    /\ called = {}
    /\ lib = NoCall
    /\ time = 0
    /\ bounced = {}
    /\ bouncedBefore = {}
    /\ lastOp = "init"

NextCalls ==
    \/ \E args \in ArgLists : CallMultiply(args)
    \/ \E r \in 1 .. 3 : CallTranspose(r)
    \/ \E n \in 0 .. MaxLen : \E d \in {3, 4} : ApplyStart(n, d)
    \/ ApplyStep
    \/ ApplyReturn
    \/ \E n \in 0 .. MaxLen : CallNormalize(n)

SpecCalls == InitCalls /\ [][NextCalls]_vars

\* The page: clicks and animation frames in any interleaving.
NextDriver == Click \/ AnimationFrame \/ Loop

SpecDriver == Init /\ [][NextDriver]_vars


\* ================================================================== claims
\* The quantities of one update call, written from the state before the call
\* and the argument time' of the call.
CallDt(i) ==
    IF time' - startTimes[i] > 0 THEN time' - startTimes[i] ELSE 0

\* Twice the exact vertical position of lines 40: 2 * (y0 + dt * vy - G dt^2 / 2).
CallY2(i) ==
    2 * startPositions[3 * i + 1] + 2 * CallDt(i) * startVelocities[3 * i + 1]
      - G * CallDt(i) * CallDt(i)

CallX(i) == startPositions[3 * i] + CallDt(i) * startVelocities[3 * i]

CallZ(i) == startPositions[3 * i + 2] + CallDt(i) * startVelocities[3 * i + 2]

\* The call computes a y-position below the ground for particle i.
CallBounces(i) == FroundQ(CallY2(i), 2) < groundLevel

\* Vertical velocity at the moment of impact: startVelocity.y - G * dt.
CallImpact(i) == startVelocities[3 * i + 1] - G * (time' - startTimes[i])

\* C1: after any sequence of update calls, with any times in any order, every
\* particle's vertical position is at or above the ground level.
Thm_C1 == \A i \in Particles : positions[3 * i + 1] >= groundLevel

\* An update has clamped one particle to the ground while another one flies.
Wit_C1 ==
    /\ lastOp = "update"
    /\ bounced # {}
    /\ \E i \in Particles : positions[3 * i + 1] > groundLevel

\* C2 as stated: on a bounce the start time equals the time of the call, the
\* start position is (computed x, groundLevel, computed z) and the vertical
\* position is exactly groundLevel.
Orig_C2 ==
    [][lastOp' = "update" =>
         \A i \in Particles : CallBounces(i) =>
            /\ startTimes'[i] = time'
            /\ startPositions'[3 * i] = Fround(CallX(i))
            /\ startPositions'[3 * i + 1] = groundLevel
            /\ startPositions'[3 * i + 2] = Fround(CallZ(i))
            /\ positions'[3 * i + 1] = groundLevel]_vars

\* C2 amended: on a bounce the start time is the time of the call rounded to
\* single precision (the value a Float32Array element holds); the start
\* position is (computed x, groundLevel, computed z) and the vertical position
\* is exactly groundLevel.
Thm_C2 ==
    [][lastOp' = "update" =>
         \A i \in Particles : CallBounces(i) =>
            /\ startTimes'[i] = Fround(time')
            /\ startPositions'[3 * i] = Fround(CallX(i))
            /\ startPositions'[3 * i] = positions'[3 * i]
            /\ startPositions'[3 * i + 1] = groundLevel
            /\ startPositions'[3 * i + 2] = Fround(CallZ(i))
            /\ startPositions'[3 * i + 2] = positions'[3 * i + 2]
            /\ positions'[3 * i + 1] = groundLevel]_vars

\* A particle has bounced off the vertical axis in a call whose time is not a
\* single-precision value.
Wit_C2 ==
    /\ lastOp = "update"
    /\ \E i \in bounced :
          /\ startTimes[i] # time
          /\ startPositions[3 * i] # 0
          /\ positions[3 * i + 1] = groundLevel

\* C3 as stated: without a bounce the position is exactly
\* (x0 + dt vx, y0 + dt vy - G dt^2 / 2, z0 + dt vz), dt = max(0, time - t0).
Orig_C3 ==
    [][lastOp' = "update" =>
         \A i \in Particles : ~CallBounces(i) =>
            /\ positions'[3 * i] = CallX(i)
            /\ 2 * positions'[3 * i + 1] = CallY2(i)
            /\ positions'[3 * i + 2] = CallZ(i)]_vars

\* C3 amended: without a bounce each component of the position is the
\* single-precision rounding of the stated expression.
Thm_C3 ==
    [][lastOp' = "update" =>
         \A i \in Particles : ~CallBounces(i) =>
            /\ positions'[3 * i] = Fround(CallX(i))
            /\ positions'[3 * i + 1] = FroundQ(CallY2(i), 2)
            /\ positions'[3 * i + 2] = Fround(CallZ(i))]_vars

\* A particle is in flight (dt > 0, no bounce) above the ground and its
\* horizontal position was rounded by the store.
Wit_C3 ==
    /\ lastOp = "update"
    /\ \E i \in Particles \ bounced :
          /\ time > startTimes[i]
          /\ positions[3 * i + 1] > groundLevel
          /\ positions[3 * i] #
                startPositions[3 * i] + (time - startTimes[i]) * startVelocities[3 * i]

\* C4 as stated: on a bounce the new vertical start velocity equals
\* 0.4 * -(vy - G dt), has the sign opposite to the impact velocity vy - G dt
\* and a smaller magnitude.
Orig_C4 ==
    [][lastOp' = "update" =>
         \A i \in Particles : CallBounces(i) =>
            /\ DampDen * startVelocities'[3 * i + 1] = DampNum * (-CallImpact(i))
            /\ CallImpact(i) < 0
            /\ startVelocities'[3 * i + 1] > 0
            /\ startVelocities'[3 * i + 1] < -CallImpact(i)]_vars

\* C4 amended: on a bounce the new vertical start velocity is the
\* single-precision rounding of 0.4 * -(vy - G dt); it has the sign opposite to
\* the impact velocity vy - G dt and a smaller magnitude.
Thm_C4 ==
    [][lastOp' = "update" =>
         \A i \in Particles : CallBounces(i) =>
            /\ startVelocities'[3 * i + 1] =
                  FroundQ(DampNum * (-CallImpact(i)), DampDen)
            /\ CallImpact(i) < 0
            /\ startVelocities'[3 * i + 1] > 0
            /\ startVelocities'[3 * i + 1] < -CallImpact(i)]_vars

\* A particle has bounced for at least the second time, so that the velocity
\* it had at the impact was itself a rebound velocity.
Wit_C4 ==
    /\ lastOp = "update"
    /\ \E i \in bounced :
          /\ i \in bouncedBefore
          /\ startVelocities[3 * i + 1] > 0
          /\ startTimes[i] > EmissionWindow

\* C5: update never changes the horizontal components (x and z) of a
\* particle's start velocity, bounce or no bounce.
Thm_C5 ==
    [][\A i \in Particles :
          /\ startVelocities'[3 * i] = startVelocities[3 * i]
          /\ startVelocities'[3 * i + 2] = startVelocities[3 * i + 2]]_vars

\* A particle with a horizontal velocity has bounced and got a new vertical one.
Wit_C5 ==
    /\ lastOp = "update"
    /\ \E i \in bounced :
          /\ startVelocities[3 * i] # 0
          /\ startVelocities[3 * i + 1] \notin VyInit

\* C6: for a particle whose start time is not earlier than the time of the
\* call, the call sets the position to the start position, triggers no bounce
\* and leaves start position, start velocity and start time unchanged.
Thm_C6 ==
    [][lastOp' = "update" =>
         \A i \in Particles : startTimes[i] >= time' =>
            /\ i \notin bounced'
            /\ startTimes'[i] = startTimes[i]
            /\ \A c \in 0 .. 2 :
                  /\ positions'[3 * i + c] = startPositions[3 * i + c]
                  /\ startPositions'[3 * i + c] = startPositions[3 * i + c]
                  /\ startVelocities'[3 * i + c] = startVelocities[3 * i + c]]_vars

\* A particle that bounced away from the origin is updated with a time before
\* its start time and sits at its start position.
Wit_C6 ==
    /\ lastOp = "update"
    /\ \E i \in Particles \ bounced :
          /\ startTimes[i] > time
          /\ startPositions[3 * i] # 0
          /\ positions[3 * i] = startPositions[3 * i]

\* C7: each animation frame runs at most one loop callback (one update
\* followed by one render), and at most one loop callback is ever pending,
\* whatever the interleaving of clicks and frames.
Orig_C7 ==
    /\ loopsInFrame <= 1
    /\ rafQueue + frameCallbacks <= 1

\* Times beyond every start time and flight time the model reaches.
FarTimes == 0 .. (4 * MaxTime)

Thm_C9 ==
    ({"viaProduct", "viaBA"} \subseteq called) =>
        heap["viaProduct"] = heap["viaBA"]

\* Both routes were taken with matrices that do not commute, on a vertex that
\* tells A B from B A.
Wit_C9 ==
    /\ {"viaProduct", "viaBA"} \subseteq called
    /\ heap["viaProduct"] = heap["viaBA"]
    /\ MatrixProduct(mA, mB) # MatrixProduct(mB, mA)
    /\ mA = Dense
    /\ mB # IDENTITY
    /\ heap["src"] = DenseBatch
    /\ heap["viaBA"] # heap["src"]

\* C10: applyToVertices called with one array as source and destination
\* leaves in it the values a call with a separate destination array writes.
Thm_C10 ==
    ({"inPlace", "separate"} \subseteq called) =>
        heap["inPlace"] = heap["separate"]

\* A batch of two vertices was transformed in place by a matrix without zero
\* elements, and separately.
Wit_C10 ==
    /\ {"inPlace", "separate"} \subseteq called
    /\ mA = Dense
    /\ heap["src"] = DenseBatch
    /\ heap["inPlace"] # heap["src"]
    /\ Len(heap["inPlace"]) = Len(heap["src"])

\* C11 as stated: multiplyMatrices called without arguments raises an
\* invalid-argument error; it returns nothing.
Orig_C11 ==
    (lib.fn = "multiplyMatrices" /\ Len(lib.args) = 0) => lib.outcome = "threw"

\* C12 as stated: applyToVertices and normalizeVertices, given a vertex array
\* whose length is no multiple of 4, signal an invalid-argument error; they
\* process nothing and write to no index at or beyond that length.
Orig_C12 ==
    (/\ lib.fn \in {"applyToVertices", "normalizeVertices"}
     /\ lib.il % 4 # 0
     /\ lib.outcome # "running" \/ lib.iterations > 0)
        => /\ lib.outcome = "threw"
           /\ \A a \in 3 .. Len(lib.mem) : Len(lib.mem[a]) <= lib.il

\* The element in row r and column c of a matrix, and the matrix product.
Element(m, r, c) == m[4 * (c - 1) + r]

Times4(a, b) ==
    [e \in 1 .. 16 |->
        LET r == ((e - 1) % 4) + 1
            c == ((e - 1) \div 4) + 1
        IN  Element(a, r, 1) * Element(b, 1, c) + Element(a, r, 2) * Element(b, 2, c)
              + Element(a, r, 3) * Element(b, 3, c) + Element(a, r, 4) * Element(b, 4, c)]

\* M1 * M2 * ... * Mk, taken from the left.
RECURSIVE ProductOf(_)
ProductOf(ms) ==
    IF Len(ms) = 1 THEN ms[1]
    ELSE CHOOSE m \in
            {Times4(p, ms[Len(ms)]) : p \in {ProductOf(SubSeq(ms, 1, Len(ms) - 1))}} :
            TRUE

\* C13: multiplyMatrices with k >= 1 matrices returns the product
\* M1 * M2 * ... * Mk; with one argument it returns that very matrix; and for
\* every k the 16 elements of every argument are as they were before the call.
Thm_C13 ==
    [][(lib'.fn = "multiplyMatrices" /\ Len(lib'.args) >= 1) =>
          /\ lib'.outcome = "returned"
          /\ lib'.mem[lib'.ret] =
                ProductOf([k \in 1 .. Len(lib'.args) |-> <<mA, mB>>[lib'.args[k]]])
          /\ Len(lib'.args) = 1 => lib'.ret = lib'.args[1]
          /\ mA' = mA
          /\ mB' = mB
          /\ lib'.mem[1] = mA
          /\ lib'.mem[2] = mB]_vars

\* Three matrices that do not commute were multiplied, one of them passed
\* twice; the result is a new array.
Wit_C13 ==
    /\ lib.fn = "multiplyMatrices"
    /\ lib.args = <<1, 2, 1>>
    /\ mA = Dense
    /\ mB = MatrixUnit(5)
    /\ lib.ret = 4
    /\ lib.mem[4] = Times4(Times4(mA, mB), mA)
    /\ lib.mem[4] # Times4(Times4(mB, mA), mA)
    /\ lib.mem[4] # Times4(Times4(mA, mA), mB)

\* C14: transposing the result of a transposition gives the matrix that was
\* transposed first, element for element, and transpose leaves its argument
\* and every other array as it was: what it returns is a new array.
Thm_C14 ==
    [][lib'.fn = "transpose" =>
          /\ lib'.ret > Len(Held)
          /\ \A r \in 1 .. Len(Held) : lib'.mem[r] = Held[r]
          /\ mA' = mA
          /\ mB' = mB
          /\ (lib.fn = "transpose" /\ lib'.args = <<3>>) =>
                lib'.mem[lib'.ret] = lib.mem[lib.args[1]]]_vars

\* The transpose of a matrix that is not symmetric was transposed again.
Wit_C14 ==
    /\ lib.fn = "transpose"
    /\ lib.args = <<3>>
    /\ lib.mem[4] = Dense
    /\ lib.mem[3] # Dense
    /\ lib.mem[3][2] = Dense[5]

\* The arrays are what update(t) would leave: a call of update(t) changes
\* nothing.
Settled(t) ==
    /\ \A o \in Offsets :
          /\ PositionAfter(o, o \div 3, t) = positions[o]
          /\ StartPositionAfter(o, o \div 3, t) = startPositions[o]
          /\ VelocityAfter(o, o \div 3, t) = startVelocities[o]
    /\ \A i \in Particles : Bounces(i, t) => ResetTime(i, t) = startTimes[i]

\* C15: render changes none of positions, startPositions, startVelocities and
\* startTimes, so that an update after it computes from the state the update
\* before it left: for every time, the position update would compute is the
\* same before and after the render.
Thm_C15 ==
    [][lastOp' = "render" =>
          /\ positions' = positions
          /\ startPositions' = startPositions
          /\ startVelocities' = startVelocities
          /\ startTimes' = startTimes
          /\ \A t \in Times : \A i \in Particles :
                /\ PosX(i, t)' = PosX(i, t)
                /\ PosY(i, t)' = PosY(i, t)
                /\ PosZ(i, t)' = PosZ(i, t)]_vars

\* render has run between updates, with a particle in the air and another one
\* that has bounced.
Wit_C15 ==
    /\ lastOp = "render"
    /\ time > 0
    /\ bounced # {}
    /\ \E i \in Particles \ bounced :
          /\ positions[3 * i + 1] > groundLevel
          /\ positions[3 * i] # 0

\* C16: the assertion of line 56 never fails: whenever a particle bounces, the
\* vertical start velocity assigned to it is greater than 0.
Thm_C16 ==
    [][lastOp' = "update" =>
          \A i \in bounced' : startVelocities'[3 * i + 1] > 0]_vars

\* Every particle has bounced in one call, each after a flight long enough to
\* give it a vertical velocity greater than any velocity of a spawn.
Wit_C16 ==
    /\ lastOp = "update"
    /\ bounced = Particles
    /\ \A i \in bounced : startVelocities[3 * i + 1] > 3

\* C17 as stated: the start time of a particle never decreases; a bounce
\* happens only in a call whose time is greater than the start time, and it
\* sets the start time to that time.
Orig_C17 ==
    [][lastOp' = "update" =>
          \A i \in Particles :
             /\ startTimes'[i] >= startTimes[i]
             /\ i \in bounced' =>
                   /\ time' > startTimes[i]
                   /\ startTimes'[i] = time']_vars

\* C17 amended: the start time of a particle never decreases; a bounce happens
\* only in a call whose time is greater than the start time, and it sets the
\* start time to that time rounded to single precision.
Thm_C17 ==
    [][lastOp' = "update" =>
          \A i \in Particles :
             /\ startTimes'[i] >= startTimes[i]
             /\ i \in bounced' =>
                   /\ time' > startTimes[i]
                   /\ startTimes'[i] = Fround(time')
             /\ i \notin bounced' => startTimes'[i] = startTimes[i]]_vars

\* A particle has bounced, which moved its start time forward, and a later
\* call with a time before that start time has left it alone.
Wit_C17 ==
    /\ lastOp = "update"
    /\ \E i \in bouncedBefore \ bounced :
          /\ startTimes[i] > time
          /\ startTimes[i] > EmissionWindow
          /\ positions[3 * i + 1] = groundLevel

\* C18 as stated: for every time t, a second call of update(t) changes none
\* of positions, startPositions, startVelocities and startTimes.
Orig_C18 ==
    [][lastOp' = "update" => \A t \in Times : t = time' => Settled(t)']_vars

\* C18 amended: for every time t that is a single-precision value, a second
\* call of update(t) changes none of positions, startPositions,
\* startVelocities and startTimes.
Thm_C18 ==
    [][lastOp' = "update" =>
          \A t \in Times : (t = time' /\ Representable(t)) => Settled(t)']_vars

\* A particle with a horizontal velocity has bounced in a call whose time is a
\* single-precision value, later than its spawn.
Wit_C18 ==
    /\ lastOp = "update"
    /\ Representable(time)
    /\ \E i \in bounced :
          /\ startTimes[i] = time
          /\ time > EmissionWindow
          /\ positions[3 * i] # 0

\* C19: whenever running is true after a handler has finished, a loop
\* callback is scheduled; while running stays false no callback is added, so
\* that the pending ones run and nothing follows them.
Thm_C19 ==
    /\ [](running => rafQueue + frameCallbacks >= 1)
    /\ [][(~running /\ ~running') =>
             /\ rafQueue' + frameCallbacks' <= rafQueue + frameCallbacks
             /\ lastOp' = "loop" =>
                   rafQueue' + frameCallbacks' < rafQueue + frameCallbacks]_vars
    /\ [][(~running /\ rafQueue + frameCallbacks = 0) =>
             (lastOp' = "click" /\ running' /\ rafQueue' = 1)]_vars

\* The animation was paused, its pending callback has run in a frame, and a
\* click has resumed it.
Wit_C19 ==
    /\ lastOp = "click"
    /\ running
    /\ rafQueue = 1
    /\ frameCallbacks = 0
    /\ frameTime > 0
    /\ loopsInFrame = 1

\* C20 as stated: applyToVertices terminates for every array, whatever its
\* length, after a number of loop iterations bounded by the array length.
Orig_C20 ==
    lib.fn = "applyToVertices" => lib.iterations <= lib.il

TypeOK ==
    /\ positions \in [Offsets -> Int]
    /\ startTimes \in [Particles -> Int]
    /\ \A o \in Offsets : Representable(positions[o])
    /\ \A o \in Offsets : Representable(startPositions[o])
    /\ \A o \in Offsets : Representable(startVelocities[o])
    /\ \A i \in Particles : Representable(startTimes[i])
====
